---- MODULE Spec2Model ----
(***************************************************************************)
(* Model of the video generation module (processAudio, generateVideo,     *)
(* createThumbnail) and of the temporary storage its calls share.          *)
(* Every call is an async function: it runs synchronously up to each       *)
(* await, where other calls and the clock may advance.                     *)
(***************************************************************************)
EXTENDS Integers, Sequences, FiniteSets, TLC

\* ---------------------------------------------------------------- bounds
NumJobs == 2      \* calls in flight
MaxClock == 1     \* distinct values Date.now() takes beyond the first
MaxDepth == 3     \* frames of processAudio when its inner call re-enters it
MaxDuration == 2  \* longest stream, in seconds
MaxApply == 2     \* successive applications of generateEnhancedThumbnail
MaxRequests == 2  \* requests the middleware handles
MaxCalls == 3     \* calls made on the AuthProvider after it mounted
MaxWrites == 3    \* createOrUpdateAnalytics calls
MaxUpdates == 2   \* update calls on the database
MaxUsers == 3     \* users ever posted to the in-memory store

Jobs == 1..NumJobs
Ticks == 0..MaxClock

\* ---------------------------------------------------------------- values
Kinds == {"processAudio", "generateVideo", "createThumbnail", "generateEnhancedThumbnail"}

\* which function the call `processAudio(audioPath)` inside processAudio
\* reaches: the module both imports and declares that name
Bindings == {"imported", "self"}

NoPath == <<"none", 0>>
NoFile == <<>>

AudioPathAt(t) == <<"audio", t>>
VideoPathAt(t) == <<"video", t>>
ThumbnailPathAt(t) == <<"thumbnail", t>>
VisualizerPathOf(j) == <<"visualizer", j>>

Paths ==
  {AudioPathAt(t) : t \in Ticks} \cup {VideoPathAt(t) : t \in Ticks}
    \cup {ThumbnailPathAt(t) : t \in Ticks} \cup {VisualizerPathOf(j) : j \in Jobs}

\* file contents and buffers: what the bytes were derived from
AudioBuffer(j) == <<"audio", j>>
VideoBufferIn(j) == <<"video", j>>
PathString(p) == <<"text">> \o p
Undefined == <<"undefined">>
VisualizerOut(j) == <<"visualizer", j>>
Mux(v, a) == <<"mux">> \o v \o a
Frame(v) == <<"frame">> \o v

\* err.message of the error fluent-ffmpeg emits when the process fails
Diagnostics == {"ffmpeg exited with code 1: Invalid data found", "ffmpeg was killed with signal SIGKILL"}

\* effect names of the `effects` argument: all in the supported set, or one outside it
Effects == {"supported", "unknown"}
Titles == {"", "title"}

\* the arguments of a call besides its buffer. `given` tells whether the caller
\* passed a sample position (in percent of the duration) to createThumbnail.
ArgsOf(k) ==
  IF k = "generateVideo"
    THEN {[effects |-> e, given |-> FALSE, percent |-> 0] : e \in Effects}
  ELSE IF k = "createThumbnail"
    THEN {[effects |-> "supported", given |-> FALSE, percent |-> 0],
          [effects |-> "supported", given |-> TRUE, percent |-> 25],
          [effects |-> "supported", given |-> TRUE, percent |-> 150]}
  ELSE {[effects |-> "supported", given |-> FALSE, percent |-> 0]}

AllArgs == UNION {ArgsOf(k) : k \in Kinds}

Durations == 1..MaxDuration
Min(a, b) == IF a <= b THEN a ELSE b
Max(a, b) == IF a <= b THEN b ELSE a

\* lines 117-122
OutputOptions_NoShortest == {"-c:v libx264", "-pix_fmt yuv420p", "-c:a aac"}

OutputOptions == {"-c:v libx264", "-pix_fmt yuv420p", "-c:a aac", "-shortest"}

\* duration of what ffmpeg writes for a video stream of v seconds and an audio
\* stream of a seconds: it stops with the shortest input under -shortest, and
\* with the longest otherwise
EncodedDuration(opts, v, a) == IF "-shortest" \in opts THEN Min(v, a) ELSE Max(v, a)

\* lines 164-169: the screenshots options
DefaultPercent == 50
Width == 1280
Height == 720
Timestamps == <<DefaultPercent>>
Size == <<Width, Height>>

\* source timestamps, in hundredths of a second, of the frames ffmpeg extracts
\* from a video of d seconds: one per entry of `timestamps`
Shots(d) == [i \in 1..Len(Timestamps) |-> d * Timestamps[i]]

NoMedia == [none |-> TRUE]

\* a set of timestamps as the ascending sequence of its elements
RECURSIVE Ascending(_)
Ascending(S) ==
  IF S = {} THEN <<>>
  ELSE LET m == CHOOSE x \in S : \A y \in S : x <= y
       IN <<m>> \o Ascending(S \ {m})

\* what the analyzer of ./audioProcessor may resolve to for the audio of call
\* j: <<"analysis", j, beats, duration>>, the beats ascending and within the
\* duration (bpm and waveform are not followed)
Analyses(j) ==
  UNION {{<<"analysis", j, Ascending(S), d>> : S \in SUBSET (1..d)} : d \in Durations}

IsAudio(c) == c # NoFile /\ c[1] = "audio"
IsVideo(c) == c # NoFile /\ c[1] \in {"video", "mux"}

VARIABLES
  clock,          \* Date.now()
  fs,             \* os.tmpdir(): path -> content, NoFile when absent
  creator,        \* path -> the call that created the file there, 0 when absent
  binding,        \* what the inner processAudio call is bound to
  kind,           \* the function each call runs
  pc,             \* position of each call
  frames,         \* processAudio: audioPath of each frame, innermost last
  audioAnalysis,  \* processAudio: what the inner call resolved to
  audioPath, outputPath, visualizerPath,   \* generateVideo locals
  videoPath, thumbnailPath,                \* createThumbnail locals
  buffer,         \* videoBuffer / thumbnailBuffer read back
  args,           \* the arguments each call was made with
  media,          \* what ffmpeg produced for the call: durations, frames, size
  result,         \* the object each call resolved to
  events,         \* per call: the steps that have completed, in order
  failedStep,     \* per call: the first step that failed, "" if none
  clobbered       \* <<j, p>>: call j overwrote or deleted a file another call created

\* the rest of the application: the auth middleware, the AuthProvider of the
\* client, the database module and the in-memory user store
VARIABLES
  handled,        \* middleware: the requests handled so far, each with its response
  user, loading, error,    \* AuthProvider: the React state
  localStorage,   \* AuthProvider: the browser's localStorage
  route,          \* AuthProvider: where router.push last went
  requests,       \* AuthProvider: the async calls in flight
  analytics,      \* db: the rows of the analytics table
  calls,          \* db: the createOrUpdateAnalytics calls in flight
  tables,         \* db: the rows of users, audio_files, videos and promotions
  users,          \* route.js: the in-memory users array
  returned,       \* route.js: the last call on the store and what it returned
  uuid            \* how many ids uuidv4() has handed out

pipeline == <<clock, fs, creator, binding, kind, pc, frames, audioAnalysis,
              audioPath, outputPath, visualizerPath, videoPath, thumbnailPath,
              buffer, args, media, result, events, failedStep, clobbered>>

authVars == <<user, loading, error, localStorage, route, requests>>
analyticsVars == <<analytics, calls>>
storeVars == <<users, returned, uuid>>

vars == <<pipeline, handled, authVars, analyticsVars, tables, storeVars>>

NoResult == [success |-> FALSE, error |-> "pending", value |-> Undefined]
Success(v) == [success |-> TRUE, error |-> "", value |-> v]
Failure(msg) == [success |-> FALSE, error |-> msg, value |-> Undefined]

PipelineInit ==
  /\ clock = 0
  /\ fs = [p \in Paths |-> NoFile]
  /\ creator = [p \in Paths |-> 0]
  /\ binding \in Bindings
  /\ kind \in [Jobs -> Kinds]
  /\ pc = [j \in Jobs |-> "start"]
  /\ frames = [j \in Jobs |-> <<>>]
  /\ audioAnalysis = [j \in Jobs |-> Undefined]
  /\ audioPath = [j \in Jobs |-> NoPath]
  /\ outputPath = [j \in Jobs |-> NoPath]
  /\ visualizerPath = [j \in Jobs |-> NoPath]
  /\ videoPath = [j \in Jobs |-> NoPath]
  /\ thumbnailPath = [j \in Jobs |-> NoPath]
  /\ buffer = [j \in Jobs |-> NoFile]
  /\ args \in [Jobs -> AllArgs]
  /\ \A j \in Jobs : args[j] \in ArgsOf(kind[j])
  /\ media = [j \in Jobs |-> NoMedia]
  /\ result = [j \in Jobs |-> NoResult]
  /\ events = [j \in Jobs |-> <<>>]
  /\ failedStep = [j \in Jobs |-> ""]
  /\ clobbered = {}

\* null, as a value of the same shape as Undefined
Null == <<"null">>

\* a string value, told apart from null and undefined
Str(s) == <<"str", s>>

\* the rest of the application before anything has happened
MiddlewareInit == handled = <<>>

\* localStorage with neither auth_token nor user
LoggedOut == [auth_token |-> Null, user |-> Null]

\* an entry of `requests`: a call of the provider, the token it read and the
\* `user` of the render it was made in
Call(op, at, token, u) == [op |-> op, pc |-> at, token |-> token, user |-> u]

\* lines 11-13: the state of the first render, with the mount effect pending
AuthFirstRender ==
  /\ user = Null
  /\ loading = TRUE
  /\ error = Null
  /\ route = "/"
  /\ requests = <<Call("mount", "pending", Null, Null)>>

AuthInit ==
  /\ AuthFirstRender
  /\ localStorage = LoggedOut

AnalyticsInit ==
  /\ analytics = {}
  /\ calls = <<>>

\* the tables the update operations write, their columns, and which of them
\* the code passes through JSON.stringify (src/db.js lines 8-80)
TableNames == {"users", "audio_files", "videos", "promotions"}
Columns(t) ==
  IF t = "users" THEN {"email", "name", "youtube_credentials", "settings"}
  ELSE IF t = "audio_files" THEN {"filename", "status", "metadata"}
  ELSE IF t = "videos" THEN {"youtube_id", "title", "description", "thumbnail_path",
                             "status", "upload_time", "video_path"}
  ELSE {"platform", "status", "post_id"}
JsonColumns(t) ==
  IF t = "users" THEN {"youtube_credentials", "settings"}
  ELSE IF t = "audio_files" THEN {"metadata"}
  ELSE {}
RowIds == {"a", "b"}

\* two rows in every table, each column holding a value of its own row
SeedRows ==
  [t \in TableNames |->
    [id \in RowIds |->
      [c \in Columns(t) |-> IF c \in JsonColumns(t) THEN <<"json", <<"obj", id>>>> ELSE Str(id)]]]

TablesInit == tables = [rows |-> SeedRows, log |-> <<>>]

StoreInit ==
  /\ users = <<>>
  /\ returned = [op |-> "", userId |-> 0, value |-> Null]
  /\ uuid = 0

\* the pipeline while the rest of the application runs: no call is made
PipelineIdle ==
  /\ PipelineInit
  /\ binding = "imported"
  /\ \A j \in Jobs : kind[j] = "processAudio"

Init ==
  /\ PipelineInit
  /\ MiddlewareInit
  /\ AuthInit
  /\ AnalyticsInit
  /\ TablesInit
  /\ StoreInit

\* ------------------------------------------------------- temporary storage
\* fs.writeFile / the output of an external process: creates or overwrites
WriteFile(j, p, c) ==
  /\ fs' = [fs EXCEPT ![p] = c]
  /\ creator' = [creator EXCEPT ![p] = IF creator[p] = 0 THEN j ELSE creator[p]]
  /\ clobbered' = IF creator[p] \notin {0, j} THEN clobbered \cup {<<j, p>>} ELSE clobbered

\* fs.unlink of an existing file
Unlink(j, p) ==
  /\ fs[p] # NoFile
  /\ fs' = [fs EXCEPT ![p] = NoFile]
  /\ creator' = [creator EXCEPT ![p] = 0]
  /\ clobbered' = IF creator[p] \notin {0, j} THEN clobbered \cup {<<j, p>>} ELSE clobbered

FsUnchanged == UNCHANGED <<fs, creator, clobbered>>

\* Date.now() advances between any two steps
Tick ==
  /\ clock < MaxClock
  /\ clock' = clock + 1
  /\ UNCHANGED <<fs, creator, binding, kind, pc, frames, audioAnalysis,
                 audioPath, outputPath, visualizerPath, videoPath, thumbnailPath,
                 buffer, args, media, result, events, failedStep, clobbered,
                 handled, authVars, analyticsVars, tables, storeVars>>

paLocals == <<frames, audioAnalysis>>
gvLocals == <<audioPath, outputPath, visualizerPath>>
ctLocals == <<videoPath, thumbnailPath>>
world == <<clock, binding, kind, args, handled, authVars, analyticsVars, tables, storeVars>>

\* how many times e occurs in the history of call j
Count(j, e) == Cardinality({i \in 1..Len(events[j]) : events[j][i] = e})

\* steps of call j completed
Did(j, es) ==
  /\ events' = [events EXCEPT ![j] = @ \o es]
  /\ UNCHANGED failedStep

\* a step of call j threw
Fails(j, step) ==
  /\ events' = [events EXCEPT ![j] = Append(@, "failed")]
  /\ failedStep' = [failedStep EXCEPT ![j] = IF @ = "" THEN step ELSE @]

Goto(j, label) ==
  /\ pc' = [pc EXCEPT ![j] = label]
  /\ UNCHANGED result

\* return {success: true, ...}
Return(j, v) ==
  /\ pc' = [pc EXCEPT ![j] = "done"]
  /\ result' = [result EXCEPT ![j] = Success(v)]

\* a catch block that rethrows: the promise rejects and no object is returned
Catch_Rethrow(j, msg) ==
  /\ pc' = [pc EXCEPT ![j] = "done"]
  /\ UNCHANGED result

\* a catch block that reports its own label instead of error.message
Catch_OwnLabel(j, msg) ==
  /\ pc' = [pc EXCEPT ![j] = "done"]
  /\ result' = [result EXCEPT ![j] = Failure("Error generating video")]

\* a catch block that hands back what had been read so far
Catch_KeepsBuffer(j, msg) ==
  /\ pc' = [pc EXCEPT ![j] = "done"]
  /\ result' = [result EXCEPT ![j] =
                  [success |-> FALSE, error |-> msg,
                   value |-> IF buffer[j] = NoFile THEN Undefined ELSE buffer[j]]]

\* the catch block: return {success: false, error: error.message}
Catch(j, msg) ==
  /\ pc' = [pc EXCEPT ![j] = "done"]
  /\ result' = [result EXCEPT ![j] = Failure(msg)]

\* ------------------------------------------------------------ processAudio
\* a frame of processAudio resolves to r; `rest` are the frames that await it.
\* The outermost frame resolves the call; an outer frame resumes after its
\* await with audioAnalysis = r, whose bpm, beats, duration and waveform are
\* undefined when r comes from this module's own processAudio.
ResolveFrame(j, rest, r) ==
  /\ frames' = [frames EXCEPT ![j] = rest]
  /\ IF rest = <<>>
       THEN /\ pc' = [pc EXCEPT ![j] = "done"]
            /\ result' = [result EXCEPT ![j] = r]
            /\ UNCHANGED audioAnalysis
       ELSE /\ pc' = [pc EXCEPT ![j] = "unlink"]
            /\ audioAnalysis' = [audioAnalysis EXCEPT ![j] = Undefined]
            /\ UNCHANGED result

\* lines 63-68: entry of a frame, up to the await of fs.writeFile. The
\* outermost frame is the caller's call; an inner frame is the call at line 71
\* when it reaches this module's processAudio, which passes the path string.
PA_Call(j) ==
  /\ kind[j] = "processAudio"
  /\ \/ pc[j] = "start"
     \/ pc[j] = "analyze" /\ binding = "self" /\ Len(frames[j]) < MaxDepth
  /\ LET depth == Len(frames[j])
         p == AudioPathAt(clock)
         c == IF depth = 0 THEN AudioBuffer(j) ELSE PathString(frames[j][depth])
     IN \/ /\ WriteFile(j, p, c)
           /\ frames' = [frames EXCEPT ![j] = Append(@, p)]
           /\ Goto(j, "analyze")
           /\ Did(j, <<"audioWritten">>)
           /\ UNCHANGED audioAnalysis
        \/ /\ FsUnchanged
           /\ Fails(j, "writeFile")
           /\ ResolveFrame(j, frames[j], Failure("writeFile"))
  /\ UNCHANGED <<world, gvLocals, ctLocals, buffer, media>>

\* line 71 when the call reaches the analyzer of ./audioProcessor
PA_Analyze(j) ==
  /\ kind[j] = "processAudio"
  /\ pc[j] = "analyze"
  /\ binding = "imported"
  /\ \/ /\ \E a \in Analyses(j) : audioAnalysis' = [audioAnalysis EXCEPT ![j] = a]
        /\ Goto(j, "unlink")
        /\ Did(j, <<"analyzed">>)
        /\ UNCHANGED frames
     \/ /\ Fails(j, "analysis")
        /\ Catch(j, "analysis")
        /\ frames' = [frames EXCEPT ![j] = <<>>]
        /\ UNCHANGED audioAnalysis
  /\ FsUnchanged
  /\ UNCHANGED <<world, gvLocals, ctLocals, buffer, media>>

\* lines 74-88: fs.unlink(audioPath), then the frame returns
PA_Unlink(j) ==
  /\ kind[j] = "processAudio"
  /\ pc[j] = "unlink"
  /\ LET depth == Len(frames[j])
         p == frames[j][depth]
         rest == SubSeq(frames[j], 1, depth - 1)
     IN \/ /\ Unlink(j, p)
           /\ Did(j, <<"unlinked">>)
           /\ ResolveFrame(j, rest, Success(audioAnalysis[j]))
        \/ /\ FsUnchanged
           /\ Fails(j, "unlink")
           /\ ResolveFrame(j, rest, Failure("unlink"))
  /\ UNCHANGED <<world, gvLocals, ctLocals, buffer, media>>

\* ----------------------------------------------------------- generateVideo
\* lines 96-98: name the audio temp file from the clock and write it
GV_Start(j) ==
  /\ kind[j] = "generateVideo"
  /\ pc[j] = "start"
  /\ audioPath' = [audioPath EXCEPT ![j] = AudioPathAt(clock)]
  /\ \/ /\ WriteFile(j, AudioPathAt(clock), AudioBuffer(j))
        /\ Goto(j, "written")
        /\ Did(j, <<"audioWritten">>)
     \/ /\ FsUnchanged
        /\ Fails(j, "writeFile")
        /\ Catch(j, "writeFile")
  /\ UNCHANGED <<world, paLocals, outputPath, visualizerPath, ctLocals, buffer, media>>

\* message of the error ./visualizer throws for an effect name it does not know
ConfigurationError == "ConfigurationError: unknown effect"

\* ./visualizer createVisualizer: renders into a file of its own under tempDir
\* and returns its path, or throws (ConfigurationError)
CreateVisualizer(j, ok) ==
  IF ok /\ args[j].effects = "supported"
    THEN /\ WriteFile(j, VisualizerPathOf(j), VisualizerOut(j))
         /\ visualizerPath' = [visualizerPath EXCEPT ![j] = VisualizerPathOf(j)]
         /\ Goto(j, "encoding")
         /\ Did(j, <<"visualizerReturned", "encoderStarted">>)
    ELSE LET msg == IF args[j].effects = "supported"
                      THEN "createVisualizer" ELSE ConfigurationError
         IN /\ FsUnchanged
            /\ Fails(j, msg)
            /\ Catch(j, msg)
            /\ UNCHANGED visualizerPath

\* lines 101-126: name the output from the clock, await createVisualizer, then
\* start ffmpeg on visualizerPath and audioPath
GV_Visualize(j) ==
  /\ kind[j] = "generateVideo"
  /\ pc[j] = "written"
  /\ outputPath' = [outputPath EXCEPT ![j] = VideoPathAt(clock)]
  /\ \E ok \in BOOLEAN : CreateVisualizer(j, ok)
  /\ UNCHANGED <<world, paLocals, audioPath, ctLocals, buffer, media>>

\* line 124: the encoder signals 'end'. It read what its two input paths held
\* and wrote the muxed output (fluent-ffmpeg passes -y: an existing file is
\* overwritten).
GV_EncoderEnd(j) ==
  /\ kind[j] = "generateVideo"
  /\ pc[j] = "encoding"
  /\ fs[visualizerPath[j]] # NoFile
  /\ IsAudio(fs[audioPath[j]])
  /\ WriteFile(j, outputPath[j], Mux(fs[visualizerPath[j]], fs[audioPath[j]]))
  /\ \E v, a \in Durations :
       media' = [media EXCEPT ![j] =
                   [video |-> v, audio |-> a, out |-> EncodedDuration(OutputOptions, v, a)]]
  /\ Goto(j, "read")
  /\ Did(j, <<"encoderEnded">>)
  /\ UNCHANGED <<world, paLocals, gvLocals, ctLocals, buffer>>

\* the error handler starts the encoder again instead of rejecting
GV_EncoderError_Retry(j) ==
  /\ kind[j] = "generateVideo"
  /\ pc[j] = "encoding"
  /\ Count(j, "encoderStarted") < 2
  /\ FsUnchanged
  /\ Goto(j, "encoding")
  /\ Did(j, <<"encoderStarted">>)
  /\ UNCHANGED <<world, paLocals, gvLocals, ctLocals, buffer, media>>

\* line 125: the encoder signals 'error'; it may leave a partial output behind
GV_EncoderError(j) ==
  /\ kind[j] = "generateVideo"
  /\ pc[j] = "encoding"
  /\ \/ FsUnchanged
     \/ WriteFile(j, outputPath[j], <<"partial">>)
  /\ \E d \in Diagnostics :
       /\ Fails(j, d)
       /\ Catch(j, d)
  /\ UNCHANGED <<world, paLocals, gvLocals, ctLocals, buffer, media>>

\* GV_Read with the encoder promise not awaited: the output is read while the
\* encoder may still be writing it
GV_Read_NoAwait(j) ==
  /\ kind[j] = "generateVideo"
  /\ pc[j] \in {"encoding", "read"}
  /\ buffer' = [buffer EXCEPT ![j] =
                  IF fs[outputPath[j]] = NoFile THEN <<"partial">> ELSE fs[outputPath[j]]]
  /\ Goto(j, "unlinkAudio")
  /\ Did(j, <<"outputRead">>)
  /\ FsUnchanged
  /\ UNCHANGED <<world, paLocals, gvLocals, ctLocals, media>>

\* line 130: fs.readFile(outputPath)
GV_Read(j) ==
  /\ kind[j] = "generateVideo"
  /\ pc[j] = "read"
  /\ \/ /\ fs[outputPath[j]] # NoFile
        /\ buffer' = [buffer EXCEPT ![j] = fs[outputPath[j]]]
        /\ Goto(j, "unlinkAudio")
        /\ Did(j, <<"outputRead">>)
     \/ /\ Fails(j, "readFile")
        /\ Catch(j, "readFile")
        /\ UNCHANGED buffer
  /\ FsUnchanged
  /\ UNCHANGED <<world, paLocals, gvLocals, ctLocals, media>>

\* one `await fs.unlink(p)` of the cleanup: on success go on to `next`
UnlinkStep(j, p, next) ==
  \/ /\ Unlink(j, p)
     /\ Goto(j, next)
     /\ Did(j, <<"unlinked">>)
  \/ /\ FsUnchanged
     /\ Fails(j, "unlink")
     /\ Catch(j, "unlink")

\* the last `await fs.unlink(p)`: on success return the buffer
UnlinkLast(j, p) ==
  \/ /\ Unlink(j, p)
     /\ Return(j, buffer[j])
     /\ Did(j, <<"unlinked">>)
  \/ /\ FsUnchanged
     /\ Fails(j, "unlink")
     /\ Catch(j, "unlink")

\* line 133
GV_UnlinkAudio(j) ==
  /\ kind[j] = "generateVideo"
  /\ pc[j] = "unlinkAudio"
  /\ UnlinkStep(j, audioPath[j], "unlinkVisualizer")
  /\ UNCHANGED <<world, paLocals, gvLocals, ctLocals, buffer, media>>

\* line 134
GV_UnlinkVisualizer(j) ==
  /\ kind[j] = "generateVideo"
  /\ pc[j] = "unlinkVisualizer"
  /\ UnlinkStep(j, visualizerPath[j], "unlinkOutput")
  /\ UNCHANGED <<world, paLocals, gvLocals, ctLocals, buffer, media>>

\* lines 135-140
GV_UnlinkOutput(j) ==
  /\ kind[j] = "generateVideo"
  /\ pc[j] = "unlinkOutput"
  /\ UnlinkLast(j, outputPath[j])
  /\ UNCHANGED <<world, paLocals, gvLocals, ctLocals, buffer, media>>

\* the caller gives up on a call whose encoder is running. generateVideo takes
\* no cancellation signal and keeps no handle on the ffmpeg command it builds,
\* so nothing in the call reacts.
Cancel(j) ==
  /\ kind[j] = "generateVideo"
  /\ pc[j] = "encoding"
  /\ \A i \in 1..Len(events[j]) : events[j][i] # "cancelled"
  /\ Did(j, <<"cancelled">>)
  /\ FsUnchanged
  /\ UNCHANGED <<world, pc, result, paLocals, gvLocals, ctLocals, buffer, media>>

\* --------------------------------------------------------- createThumbnail
\* lines 154-156: name the video temp file from the clock and write it
CT_Start(j) ==
  /\ kind[j] = "createThumbnail"
  /\ pc[j] = "start"
  /\ videoPath' = [videoPath EXCEPT ![j] = VideoPathAt(clock)]
  /\ \/ /\ WriteFile(j, VideoPathAt(clock), VideoBufferIn(j))
        /\ Goto(j, "written")
        /\ Did(j, <<"videoWritten">>)
     \/ /\ FsUnchanged
        /\ Fails(j, "writeFile")
        /\ Catch(j, "writeFile")
  /\ UNCHANGED <<world, paLocals, gvLocals, thumbnailPath, buffer, media>>

\* lines 159-169: name the thumbnail from the clock and start ffmpeg on videoPath
CT_Screenshots(j) ==
  /\ kind[j] = "createThumbnail"
  /\ pc[j] = "written"
  /\ thumbnailPath' = [thumbnailPath EXCEPT ![j] = ThumbnailPathAt(clock)]
  /\ Goto(j, "extracting")
  /\ Did(j, <<"extractStarted">>)
  /\ FsUnchanged
  /\ UNCHANGED <<world, paLocals, gvLocals, videoPath, buffer, media>>

\* line 170: the frame extraction signals 'end': it decoded what videoPath held
\* and wrote the frame
CT_ExtractEnd(j) ==
  /\ kind[j] = "createThumbnail"
  /\ pc[j] = "extracting"
  /\ IsVideo(fs[videoPath[j]])
  /\ WriteFile(j, thumbnailPath[j], Frame(fs[videoPath[j]]))
  /\ \E d \in Durations :
       media' = [media EXCEPT ![j] = [duration |-> d, shots |-> Shots(d), size |-> Size]]
  /\ Goto(j, "read")
  /\ Did(j, <<"extractEnded">>)
  /\ UNCHANGED <<world, paLocals, gvLocals, ctLocals, buffer>>

\* line 171: the frame extraction signals 'error'
CT_ExtractError(j) ==
  /\ kind[j] = "createThumbnail"
  /\ pc[j] = "extracting"
  /\ FsUnchanged
  /\ \E d \in Diagnostics :
       /\ Fails(j, d)
       /\ Catch(j, d)
  /\ UNCHANGED <<world, paLocals, gvLocals, ctLocals, buffer, media>>

\* line 175: fs.readFile(thumbnailPath)
CT_Read(j) ==
  /\ kind[j] = "createThumbnail"
  /\ pc[j] = "read"
  /\ \/ /\ fs[thumbnailPath[j]] # NoFile
        /\ buffer' = [buffer EXCEPT ![j] = fs[thumbnailPath[j]]]
        /\ Goto(j, "unlinkVideo")
        /\ Did(j, <<"thumbnailRead">>)
     \/ /\ Fails(j, "readFile")
        /\ Catch(j, "readFile")
        /\ UNCHANGED buffer
  /\ FsUnchanged
  /\ UNCHANGED <<world, paLocals, gvLocals, ctLocals, media>>

\* line 178
CT_UnlinkVideo(j) ==
  /\ kind[j] = "createThumbnail"
  /\ pc[j] = "unlinkVideo"
  /\ UnlinkStep(j, videoPath[j], "unlinkThumbnail")
  /\ UNCHANGED <<world, paLocals, gvLocals, ctLocals, buffer, media>>

\* lines 179-184
CT_UnlinkThumbnail(j) ==
  /\ kind[j] = "createThumbnail"
  /\ pc[j] = "unlinkThumbnail"
  /\ UnlinkLast(j, thumbnailPath[j])
  /\ UNCHANGED <<world, paLocals, gvLocals, ctLocals, buffer, media>>

\* ----------------------------------------------- generateEnhancedThumbnail
\* the thumbnails a caller may pass: frames createThumbnail returned
Thumbnails == {Frame(VideoBufferIn(k)) : k \in Jobs}

\* an overlay stage that draws the title over the image
generateEnhancedThumbnail_Overlay(thumbnailBuffer, title, effects) ==
  Success(<<"overlay", title>> \o thumbnailBuffer)

\* lines 195-210: returns the original thumbnail; nothing in the try block throws
generateEnhancedThumbnail(thumbnailBuffer, title, effects) ==
  Success(thumbnailBuffer)

\* a call of generateEnhancedThumbnail: the first on a thumbnail the caller
\* holds (kept in buffer), a later one on what the previous call returned
GE_Enhance(j) ==
  /\ kind[j] = "generateEnhancedThumbnail"
  /\ pc[j] \in {"start", "done"}
  /\ Count(j, "enhanced") < MaxApply
  /\ \E title \in Titles, effects \in Effects :
       IF pc[j] = "start"
         THEN \E b \in Thumbnails :
                /\ buffer' = [buffer EXCEPT ![j] = b]
                /\ result' = [result EXCEPT ![j] = generateEnhancedThumbnail(b, title, effects)]
         ELSE /\ UNCHANGED buffer
              /\ result' = [result EXCEPT ![j] =
                              generateEnhancedThumbnail(result[j].value, title, effects)]
  /\ pc' = [pc EXCEPT ![j] = "done"]
  /\ Did(j, <<"enhanced">>)
  /\ FsUnchanged
  /\ UNCHANGED <<world, paLocals, gvLocals, ctLocals, media>>

\* ------------------------------------------------------------ specification
\* steps the event loop and the file system carry out
Continue(j) ==
  \/ PA_Call(j) \/ PA_Analyze(j) \/ PA_Unlink(j)
  \/ GV_Start(j) \/ GV_Visualize(j) \/ GV_Read(j)
  \/ GV_UnlinkAudio(j) \/ GV_UnlinkVisualizer(j) \/ GV_UnlinkOutput(j)
  \/ CT_Start(j) \/ CT_Screenshots(j) \/ CT_Read(j)
  \/ CT_UnlinkVideo(j) \/ CT_UnlinkThumbnail(j)
  \/ GE_Enhance(j)

\* signals of the external ffmpeg process, which may never come
Signal(j) ==
  \/ GV_EncoderEnd(j) \/ GV_EncoderError(j)
  \/ CT_ExtractEnd(j) \/ CT_ExtractError(j)

Next ==
  \/ Tick
  \/ \E j \in Jobs : Continue(j)
  \/ \E j \in Jobs : Signal(j)
  \/ \E j \in Jobs : Cancel(j)

Spec == Init /\ [][Next]_vars

\* the event loop runs every continuation that is ready; nothing makes the
\* external process signal
FairSpec == Spec /\ \A j \in Jobs : WF_vars(Continue(j))

\* One call observed while any number of other calls run beside it. The other
\* calls are not followed step by step: all they can do to the observed call is
\* write or delete a file at a clock-named path it has named, which is what
\* their own writeFile, ffmpeg output and unlink steps do when the names collide.
Observed == CHOOSE j \in Jobs : \A k \in Jobs : j <= k
Others == NumJobs + 1

ForeignContents(p) ==
  IF p[1] = "audio" THEN {AudioBuffer(Others), PathString(p)}
  ELSE IF p[1] = "video"
    THEN {VideoBufferIn(Others), Mux(VisualizerOut(Others), AudioBuffer(Others)), <<"partial">>}
  ELSE {Frame(VideoBufferIn(Others))}

Interfere ==
  /\ pc[Observed] \notin {"start", "done"}
  /\ \E p \in Paths :
       /\ p[1] # "visualizer"
       /\ \/ p \in {audioPath[Observed], outputPath[Observed],
                    videoPath[Observed], thumbnailPath[Observed]}
          \/ \E i \in 1..Len(frames[Observed]) : frames[Observed][i] = p
       /\ \/ \E c \in ForeignContents(p) : WriteFile(Others, p, c)
          \/ Unlink(Others, p)
  /\ UNCHANGED <<world, pc, result, events, failedStep, paLocals, gvLocals, ctLocals, buffer, media>>

NextOpen ==
  \/ Tick
  \/ Continue(Observed)
  \/ Signal(Observed)
  \/ Cancel(Observed)
  \/ Interfere

\* the calls that are not followed never move: they are given the observed
\* call's function and arguments
InitOpen ==
  /\ Init
  /\ \A j \in Jobs : kind[j] = kind[Observed] /\ args[j] = args[Observed]

OpenSpec == InitOpen /\ [][NextOpen]_vars

\* ------------------------------------------------------- auth middleware
\* src/db.js lines 529-561. A header value is the sequence of the fields a
\* single space separates: "Bearer abc" is <<Str("Bearer"), abc>>, "Bearer  abc"
\* (two spaces) is <<Str("Bearer"), Str(""), abc>>. A field is a string or a
\* JSON web token <<"jwt", key, userId, expired>>.
Secret == "secret"
UserIds == {Str("u1"), Str("u2")}
Jwt(key, userId, expired) == <<"jwt", key, userId, expired>>
Tokens ==
  {Jwt(k, u, x) : k \in {Secret, "forged"}, u \in UserIds \cup {Undefined}, x \in BOOLEAN}
GoodToken == Jwt(Secret, Str("u1"), FALSE)

\* request.headers.get('Authorization') of a request without the header
NoHeader == <<>>

AuthorizationHeaders ==
  {NoHeader, <<Str("Bearer")>>, <<Str("Bearer"), Str("")>>, <<Str("Basic"), GoodToken>>,
   <<Str("bearer"), GoodToken>>, <<Str("Bearer"), Str(""), GoodToken>>,
   <<Str("Bearer"), GoodToken, Str("x")>>, <<Str("Bearer"), Str("garbage")>>}
    \cup {<<Str("Bearer"), t>> : t \in Tokens}

Requests ==
  {[Authorization |-> a, XUserID |-> x] : a \in AuthorizationHeaders, x \in {Null, Str("u2")}}

\* authHeader.startsWith('Bearer ')
StartsWithBearer(authHeader) ==
  /\ authHeader # NoHeader
  /\ Len(authHeader) >= 2
  /\ authHeader[1] = Str("Bearer")

\* jwt.verify(token, secret) returns the payload; it throws on a malformed
\* token, a wrong signature or an expired token
Verifies(token) == token[1] = "jwt" /\ token[2] = Secret /\ ~token[4]

\* Headers.set(name, value) stores String(value)
HeaderValue(v) == IF v[1] = "str" THEN v ELSE Str(v[1])

Json(status) == [forwarded |-> FALSE, status |-> status, headers |-> Null]

\* a middleware that keeps the caller's X-User-ID when there is one
middleware_KeepsClientId(request) ==
  IF ~StartsWithBearer(request.Authorization) THEN Json(401)
  ELSE LET token == request.Authorization[2]
       IN IF Verifies(token)
            THEN [forwarded |-> TRUE, status |-> 200,
                  headers |-> [request EXCEPT !.XUserID =
                                 IF @ = Null THEN HeaderValue(token[3]) ELSE @]]
            ELSE Json(401)

\* lines 529-554
middleware(request) ==
  IF ~StartsWithBearer(request.Authorization) THEN Json(401)
  ELSE LET token == request.Authorization[2]
       IN IF Verifies(token)
            THEN [forwarded |-> TRUE, status |-> 200,
                  headers |-> [request EXCEPT !.XUserID = HeaderValue(token[3])]]
            ELSE Json(401)

\* the server handles one more request
Middleware ==
  /\ Len(handled) < MaxRequests
  /\ \E request \in Requests :
       handled' = Append(handled, [request |-> request, response |-> middleware(request)])
  /\ UNCHANGED <<pipeline, authVars, analyticsVars, tables, storeVars>>

MiddlewareNext == Middleware

MiddlewareStart ==
  /\ PipelineIdle /\ MiddlewareInit /\ AuthInit /\ AnalyticsInit /\ TablesInit /\ StoreInit

MiddlewareSpec == MiddlewareStart /\ [][MiddlewareNext]_vars

\* ----------------------------------------------------------- AuthProvider
\* src/unnamed/part_005. Objects are <<"obj", record>>; JSON.stringify of an
\* object is <<"json", object>>, and JSON.parse throws on anything else.
Obj(r) == <<"obj", r>>
Stringify(o) == <<"json", o>>
CanParse(t) == t[1] = "json"
Parse(t) == t[2]

\* { ...a, ...b }
Merge(a, b) ==
  IF a = Null THEN b
  ELSE Obj([k \in DOMAIN a[2] \cup DOMAIN b[2] |->
              IF k \in DOMAIN b[2] THEN b[2][k] ELSE a[2][k]])

Ann == Obj([id |-> "u1", name |-> "Ann"])
AuthToken == Str("t1")

\* what the browser may hold from an earlier session
StoredSessions ==
  {LoggedOut,
   [auth_token |-> AuthToken, user |-> Stringify(Ann)],
   [auth_token |-> AuthToken, user |-> Str("garbage")],
   [auth_token |-> AuthToken, user |-> Null]}

\* what the server answers: response.ok with data, or an error body, or the
\* fetch rejects
Ok(token, u) == [ok |-> TRUE, token |-> token, user |-> u, error |-> ""]
NotOk(msg) == [ok |-> FALSE, token |-> Null, user |-> Null, error |-> msg]
ErrorMessages == {"Unauthorized - Invalid token", "Internal server error", "Failed to fetch"}
Responses(op) ==
  {NotOk(m) : m \in ErrorMessages}
    \cup (IF op \in {"register", "login"} THEN {Ok(AuthToken, Ann)}
          ELSE IF op = "getProfile" THEN {Ok(Null, Ann)}
          ELSE {Ok(Null, Obj([name |-> "Bob"]))})

\* error.message.includes('Unauthorized')
IncludesUnauthorized(msg) == msg = "Unauthorized - Invalid token"

Mounted == requests[1].pc = "settled"
Settle(i) == requests' = [requests EXCEPT ![i].pc = "settled"]

\* lines 105-110: logout()
DoLogout ==
  /\ localStorage' = LoggedOut
  /\ user' = Null
  /\ route' = "/login"

notAuth == <<pipeline, handled, analyticsVars, tables, storeVars>>

\* lines 17-31: the mount effect
Mount ==
  /\ requests[1].pc = "pending"
  /\ LET token == localStorage.auth_token
         storedUser == localStorage.user
     IN IF token # Null /\ storedUser # Null
          THEN IF CanParse(storedUser)
                 THEN /\ user' = Parse(storedUser)
                      /\ UNCHANGED <<localStorage, route>>
                 ELSE DoLogout
          ELSE UNCHANGED <<user, localStorage, route>>
  /\ loading' = FALSE
  /\ Settle(1)
  /\ UNCHANGED <<error, notAuth>>

\* lines 34-46 and 70-81: register / login up to the await of fetch
StartSignIn(op) ==
  /\ Mounted
  /\ Len(requests) <= MaxCalls
  /\ loading' = TRUE
  /\ error' = Null
  /\ requests' = Append(requests, Call(op, "fetch", Null, user))
  /\ UNCHANGED <<user, localStorage, route, notAuth>>

Register == StartSignIn("register")
Login == StartSignIn("login")

\* lines 105-110, called by the application
Logout ==
  /\ Mounted
  /\ Len(requests) <= MaxCalls
  /\ DoLogout
  /\ requests' = Append(requests, Call("logout", "settled", Null, user))
  /\ UNCHANGED <<loading, error, notAuth>>

\* lines 114-131 and 158-175: getProfile / updateProfile up to the await of
\* fetch; without a token they throw at once, and getProfile then logs out
StartProfile(op) ==
  /\ Mounted
  /\ Len(requests) <= MaxCalls
  /\ LET token == localStorage.auth_token
     IN IF token = Null
          THEN /\ error' = Str("Not authenticated")
               /\ loading' = FALSE
               /\ requests' = Append(requests, Call(op, "settled", token, user))
               /\ IF op = "getProfile" THEN DoLogout
                                       ELSE UNCHANGED <<user, localStorage, route>>
          ELSE /\ error' = Null
               /\ loading' = TRUE
               /\ requests' = Append(requests, Call(op, "fetch", token, user))
               /\ UNCHANGED <<user, localStorage, route>>
  /\ UNCHANGED notAuth

GetProfile == StartProfile("getProfile")
UpdateProfile == StartProfile("updateProfile")

\* the rest of register, login, getProfile and updateProfile: the fetch of
\* call i settles (lines 47-66, 83-101, 133-154, 177-195)
Respond(i) ==
  /\ requests[i].pc = "fetch"
  /\ Settle(i)
  /\ loading' = FALSE
  /\ \E r \in Responses(requests[i].op) :
       LET op == requests[i].op
       IN IF r.ok
            THEN /\ UNCHANGED error
                 /\ IF op \in {"register", "login"}
                      THEN /\ localStorage' = [auth_token |-> r.token, user |-> Stringify(r.user)]
                           /\ user' = r.user
                           /\ route' = "/dashboard"
                      ELSE LET u == IF op = "getProfile" THEN r.user
                                    ELSE Merge(requests[i].user, r.user)
                           IN /\ localStorage' = [localStorage EXCEPT !.user = Stringify(u)]
                              /\ user' = u
                              /\ UNCHANGED route
            ELSE /\ error' = Str(r.error)
                 /\ IF op = "getProfile" /\ IncludesUnauthorized(r.error)
                      THEN DoLogout
                      ELSE UNCHANGED <<user, localStorage, route>>
  /\ UNCHANGED notAuth

AuthNext ==
  \/ Mount
  \/ Register \/ Login \/ Logout
  \/ GetProfile \/ UpdateProfile
  \/ \E i \in 1..Len(requests) : Respond(i)

AuthStart ==
  /\ PipelineIdle /\ MiddlewareInit /\ AnalyticsInit /\ TablesInit /\ StoreInit
  /\ AuthFirstRender
  /\ localStorage \in StoredSessions

AuthSpec == AuthStart /\ [][AuthNext]_vars

\* ------------------------------------------------ createOrUpdateAnalytics
\* src/db.js lines 376-417 on the analytics table of src/0001_initial.sql lines
\* 37-47: id is the primary key, video_id carries no unique constraint. Of the
\* value columns only views is followed; each call writes its own number.
VideoIds == {"v1", "v2"}

notAnalytics == <<pipeline, handled, authVars, tables, users, returned>>

\* a call is made: analyticsData is destructured (line 378)
AN_Call ==
  /\ Len(calls) < MaxWrites
  /\ \E v \in VideoIds :
       calls' = Append(calls, [video_id |-> v, views |-> Len(calls) + 1, pc |-> "select",
                               success |-> FALSE])
  /\ UNCHANGED <<analytics, uuid, notAnalytics>>

\* lines 381-385: SELECT * FROM analytics WHERE video_id = ..., then the branch
AN_Select(i) ==
  /\ calls[i].pc = "select"
  /\ LET existing == {r \in analytics : r.video_id = calls[i].video_id}
     IN calls' = [calls EXCEPT ![i].pc = IF existing # {} THEN "update" ELSE "insert"]
  /\ UNCHANGED <<analytics, uuid, notAnalytics>>

\* lines 387-399: UPDATE analytics SET ... WHERE video_id = ...
AN_Update(i) ==
  /\ calls[i].pc = "update"
  /\ analytics' = {IF r.video_id = calls[i].video_id
                     THEN [r EXCEPT !.views = calls[i].views] ELSE r : r \in analytics}
  /\ calls' = [calls EXCEPT ![i].pc = "done", ![i].success = TRUE]
  /\ UNCHANGED <<uuid, notAnalytics>>

\* lines 402-410: id = uuidv4(), INSERT INTO analytics ...
AN_Insert(i) ==
  /\ calls[i].pc = "insert"
  /\ uuid' = uuid + 1
  /\ analytics' = analytics \cup
                    {[id |-> uuid + 1, video_id |-> calls[i].video_id, views |-> calls[i].views]}
  /\ calls' = [calls EXCEPT ![i].pc = "done", ![i].success = TRUE]
  /\ UNCHANGED notAnalytics

\* lines 412-415: a query rejects and the catch block returns the failure
AN_Throw(i) ==
  /\ calls[i].pc \in {"select", "update", "insert"}
  /\ calls' = [calls EXCEPT ![i].pc = "done"]
  /\ UNCHANGED <<analytics, uuid, notAnalytics>>

AnalyticsNext ==
  \/ AN_Call
  \/ \E i \in 1..Len(calls) : AN_Select(i) \/ AN_Update(i) \/ AN_Insert(i) \/ AN_Throw(i)

AnalyticsStart ==
  /\ PipelineIdle /\ MiddlewareInit /\ AuthInit /\ AnalyticsInit /\ TablesInit /\ StoreInit

AnalyticsSpec == AnalyticsStart /\ [][AnalyticsNext]_vars

\* --------------------------------------------------- database update calls
\* src/db.js updateUser (125-149), updateAudioFile (217-239), updateVideo
\* (323-356), updatePromotion (484-506). The update data is a function from the
\* fields it names to their values.
Field(data, k) == IF k \in DOMAIN data THEN data[k] ELSE Undefined

\* a query parameter: undefined is sent as NULL
Param(v) == IF v = Undefined THEN Null ELSE v

\* JSON.stringify(v || null) as a query parameter
JsonParam(v) == IF v = Undefined THEN Str("null") ELSE Stringify(v)

COALESCE(a, b) == IF a = Null THEN b ELSE a

\* what a caller may pass for a column
NewValue(t, c) == IF c \in JsonColumns(t) THEN <<"obj", "new">> ELSE Str("new")
UpdateData(t, updatable) ==
  {[c \in S |-> NewValue(t, c)] : S \in SUBSET updatable}

\* UPDATE t SET c = COALESCE(param, c), ... WHERE id = ...
Updated(t, row, data, plain, json) ==
  [c \in Columns(t) |->
     IF c \in plain THEN COALESCE(Param(Field(data, c)), row[c])
     ELSE IF c \in json THEN COALESCE(JsonParam(Field(data, c)), row[c])
     ELSE row[c]]

notTables == <<pipeline, handled, authVars, analyticsVars, storeVars>>

\* one update call: the row with the given id is rewritten when it exists and
\* no constraint rejects the statement
UpdateCall(t, plain, json) ==
  /\ Len(tables.log) < MaxUpdates
  /\ \E id \in RowIds \cup {"missing"}, data \in UpdateData(t, plain \cup json) :
       LET rows == tables.rows[t]
           clash == /\ t = "users" /\ "email" \in DOMAIN data
                    /\ \E k \in RowIds \ {id} : rows[k]["email"] = data["email"]
           new == IF id \in RowIds /\ ~clash
                    THEN [rows EXCEPT ![id] = Updated(t, rows[id], data, plain, json)]
                    ELSE rows
       IN tables' = [rows |-> [tables.rows EXCEPT ![t] = new],
                     log |-> Append(tables.log, [table |-> t, id |-> id, data |-> data])]
  /\ UNCHANGED notTables

UpdateUser == UpdateCall("users", {"email", "name"}, {"youtube_credentials", "settings"})
UpdateAudioFile == UpdateCall("audio_files", {"status"}, {"metadata"})
UpdateVideo ==
  UpdateCall("videos", {"youtube_id", "title", "description", "thumbnail_path",
                        "status", "upload_time"}, {})
UpdatePromotion == UpdateCall("promotions", {"status", "post_id"}, {})

TablesNext == UpdateUser \/ UpdateAudioFile \/ UpdateVideo \/ UpdatePromotion

TablesStart ==
  /\ PipelineIdle /\ MiddlewareInit /\ AuthInit /\ AnalyticsInit /\ TablesInit /\ StoreInit

TablesSpec == TablesStart /\ [][TablesNext]_vars

\* ------------------------------------------------- in-memory user store
\* src/route.js. A user is an object <<"obj", record>>; uuidv4() hands out a
\* fresh id each time, here the next number.
IdOf(u) == u[2]["id"]
Names == {"n1", "n2"}

\* users.findIndex(user => user.id === userId): 0 stands for -1
FindIndex(userId) ==
  IF \E i \in 1..Len(users) : IdOf(users[i]) = userId
    THEN CHOOSE i \in 1..Len(users) :
           /\ IdOf(users[i]) = userId
           /\ \A k \in 1..(i - 1) : IdOf(users[k]) # userId
    ELSE 0

\* users.filter(user => user.id !== userId)
RECURSIVE Filter(_, _)
Filter(us, userId) ==
  IF us = <<>> THEN <<>>
  ELSE IF IdOf(Head(us)) # userId THEN <<Head(us)>> \o Filter(Tail(us), userId)
  ELSE Filter(Tail(us), userId)

\* what a caller may pass to updateUser as userData
UserData ==
  {Obj([name |-> n]) : n \in Names}
    \cup {Obj([id |-> k]) : k \in 1..MaxUsers}

notStore == <<pipeline, handled, authVars, analyticsVars, tables>>

\* lines 18-33
POST ==
  /\ uuid < MaxUsers
  /\ \E name \in Names :
       LET newUser == Obj([id |-> uuid + 1, email |-> "e", name |-> name, settings |-> Null])
       IN /\ users' = Append(users, newUser)
          /\ returned' = [op |-> "POST", userId |-> uuid + 1, value |-> newUser]
  /\ uuid' = uuid + 1
  /\ UNCHANGED notStore

\* lines 41-50
updateUser ==
  /\ \E userId \in 1..MaxUsers, userData \in UserData :
       LET index == FindIndex(userId)
       IN IF index # 0
            THEN /\ users' = [users EXCEPT ![index] = Merge(users[index], userData)]
                 /\ returned' = [op |-> "updateUser", userId |-> userId,
                                  value |-> Merge(users[index], userData)]
            ELSE /\ UNCHANGED users
                 /\ returned' = [op |-> "updateUser", userId |-> userId, value |-> Null]
  /\ UNCHANGED <<uuid, notStore>>

\* lines 53-63
deleteUser ==
  /\ \E userId \in 1..MaxUsers :
       LET index == FindIndex(userId)
       IN IF index # 0
            THEN /\ users' = Filter(users, userId)
                 /\ returned' = [op |-> "deleteUser", userId |-> userId, value |-> users[index]]
            ELSE /\ UNCHANGED users
                 /\ returned' = [op |-> "deleteUser", userId |-> userId, value |-> Null]
  /\ UNCHANGED <<uuid, notStore>>

StoreNext == POST \/ updateUser \/ deleteUser

StoreStart ==
  /\ PipelineIdle /\ MiddlewareInit /\ AuthInit /\ AnalyticsInit /\ TablesInit /\ StoreInit

StoreSpec == StoreStart /\ [][StoreNext]_vars

\* ------------------------------------------------------------------ claims
Happened(j, e) == \E i \in 1..Len(events[j]) : events[j][i] = e

\* every occurrence of b in the history of call j comes after an a
Before(j, a, b) ==
  \A i \in 1..Len(events[j]) :
    events[j][i] = b => \E k \in 1..(i - 1) : events[j][k] = a

\* the files now in temporary storage that call j created
FilesOf(j) == {p \in Paths : fs[p] # NoFile /\ creator[p] = j}

Settled(j) == pc[j] = "done"
Running(j) == pc[j] \notin {"start", "done"}

\* the temp paths call j has named
PathsOf(j) ==
  ({audioPath[j], outputPath[j], visualizerPath[j], videoPath[j], thumbnailPath[j]}
     \cup {frames[j][i] : i \in 1..Len(frames[j])}) \ {NoPath}

\* the bytes call j returns when no other call runs
Alone(j) ==
  IF kind[j] = "generateVideo" THEN Mux(VisualizerOut(j), AudioBuffer(j))
  ELSE IF kind[j] = "createThumbnail" THEN Frame(VideoBufferIn(j))
  ELSE NoFile

\* C1: when generateVideo returns a failure, every temporary file that run
\* created (audio, visualizer output, encoded output) has been deleted.
C1_CleanupOnError ==
  \A j \in Jobs :
    (kind[j] = "generateVideo" /\ Settled(j) /\ ~result[j].success)
      => FilesOf(j) = {}

\* C2: when processAudio returns, on success or on failure, the scratch audio
\* file it wrote no longer exists.
C2_ScratchReclaimed ==
  \A j \in Jobs :
    (kind[j] = "processAudio" /\ Settled(j)) => FilesOf(j) = {}

\* C3: when createThumbnail returns, whether the extraction succeeded or failed,
\* the video and thumbnail temp files it created no longer exist.
C3_ThumbnailTempsReclaimed ==
  \A j \in Jobs :
    (kind[j] = "createThumbnail" /\ Settled(j)) => FilesOf(j) = {}

\* C4: two calls that run concurrently use disjoint sets of temp paths.
C4_DisjointPaths ==
  \A i, j \in Jobs :
    (i # j /\ Running(i) /\ Running(j)) => PathsOf(i) \cap PathsOf(j) = {}

\* C5: no call overwrites or deletes a temp file that another call created.
C5_NoForeignMutation == clobbered = {}

\* C6: the bytes a successful generateVideo or createThumbnail returns are
\* those it would return had it run alone.
C6_NoCrossContamination ==
  \A j \in Jobs :
    (kind[j] \in {"generateVideo", "createThumbnail"} /\ Settled(j) /\ result[j].success)
      => result[j].value = Alone(j)

\* C7: the encoder invocation is bounded by a timeout: a generateVideo whose
\* encoder is running eventually returns, also when the encoder never signals.
C7_EncoderBounded ==
  \A j \in Jobs : (kind[j] = "generateVideo" /\ pc[j] = "encoding") ~> Settled(j)

\* C8: once a call is cancelled while its encoder runs, the encoder no longer
\* runs and no temp file created by that call is left.
C8_CancelReleases ==
  \A j \in Jobs :
    Happened(j, "cancelled") => (pc[j] # "encoding" /\ FilesOf(j) = {})

\* C9: stages run in strict sequence. In generateVideo the encoder starts only
\* after the audio file is written and createVisualizer has returned, and the
\* output is read only after the encoder signalled end; in createThumbnail the
\* thumbnail is read only after the extraction signalled end.
C9_StrictSequence ==
  \A j \in Jobs :
    /\ Before(j, "audioWritten", "encoderStarted")
    /\ Before(j, "visualizerReturned", "encoderStarted")
    /\ Before(j, "encoderEnded", "outputRead")
    /\ Before(j, "extractEnded", "thumbnailRead")

C9_Witness ==
  /\ kind[Observed] = "generateVideo"
  /\ Settled(Observed)
  /\ result[Observed].success

\* C10: fail fast. Once a step of a run has failed nothing further happens in
\* that run, and the run returns that failure to its caller.
C10_FailFast ==
  \A j \in Jobs :
    failedStep[j] # ""
      => /\ events[j][Len(events[j])] = "failed"
         /\ Settled(j)
         /\ result[j] = Failure(failedStep[j])

\* C11: a generateVideo (createThumbnail) result with success=true carries the
\* buffer that was read after the encoder (frame extraction) signalled end and
\* nothing in the run failed; a result with success=false carries no buffer.
C11_NoPartialResult ==
  \A j \in Jobs :
    (kind[j] \in {"generateVideo", "createThumbnail"} /\ Settled(j))
      => IF result[j].success
           THEN /\ failedStep[j] = ""
                /\ buffer[j] # NoFile
                /\ result[j].value = buffer[j]
                /\ kind[j] = "generateVideo"
                     => Happened(j, "outputRead") /\ Before(j, "encoderEnded", "outputRead")
                /\ kind[j] = "createThumbnail"
                     => Happened(j, "thumbnailRead") /\ Before(j, "extractEnded", "thumbnailRead")
           ELSE result[j].value = Undefined

C11_Witness ==
  /\ kind[Observed] = "createThumbnail"
  /\ Settled(Observed)
  /\ result[Observed].success
  /\ result[Observed].value = buffer[Observed]

\* C12: when the encoder fails, generateVideo returns a failure whose error
\* text is the encoder's diagnostic, unchanged.
C12_DiagnosticVerbatim ==
  \A j \in Jobs :
    (kind[j] = "generateVideo" /\ failedStep[j] \in Diagnostics)
      => /\ Settled(j)
         /\ ~result[j].success
         /\ result[j].error = failedStep[j]

C12_Witness ==
  /\ kind[Observed] = "generateVideo"
  /\ failedStep[Observed] \in Diagnostics
  /\ Settled(Observed)

\* C13: a generateVideo call whose effects name an unsupported effect fails with
\* the ConfigurationError, never starts the encoder, and leaves none of the
\* files it created in temporary storage. (A run whose first write to
\* temporary storage fails reports that failure instead.)
C13_UnknownEffectRejected ==
  \A j \in Jobs :
    (kind[j] = "generateVideo" /\ args[j].effects = "unknown" /\ Settled(j))
      => /\ ~result[j].success
         /\ Happened(j, "audioWritten") => result[j].error = ConfigurationError
         /\ ~Happened(j, "encoderStarted")
         /\ FilesOf(j) = {}

\* C14: whatever the durations of the video stream and of the audio, the
\* output the encoder wrote lasts min(video, audio): the longer stream is cut
\* and the shorter is never padded.
C14_ShortestJoin ==
  \A j \in Jobs :
    (kind[j] = "generateVideo" /\ Happened(j, "encoderEnded"))
      => /\ media[j].out <= media[j].video
         /\ media[j].out <= media[j].audio
         /\ media[j].out \in {media[j].video, media[j].audio}

C14_Witness ==
  /\ kind[Observed] = "generateVideo"
  /\ Settled(Observed)
  /\ result[Observed].success
  /\ media[Observed].video > media[Observed].audio

\* C15: a run starts the encoder at most once and the frame extraction at most
\* once, and once a step has failed the run has returned that failure: no step
\* is attempted after it.
C15_NoRetry ==
  \A j \in Jobs :
    kind[j] \in {"generateVideo", "createThumbnail"}
      => /\ Count(j, "encoderStarted") <= 1
         /\ Count(j, "extractStarted") <= 1
         /\ Happened(j, "failed")
              => /\ Settled(j)
                 /\ ~result[j].success
                 /\ \A i \in 1..Len(events[j]) :
                      (\E k \in 1..(i - 1) : events[j][k] = "failed")
                        => events[j][i] = "cancelled"

C15_Witness ==
  /\ kind[Observed] = "createThumbnail"
  /\ Count(Observed, "extractStarted") = 1
  /\ failedStep[Observed] \in Diagnostics
  /\ Settled(Observed)

\* C16: for every thumbnail, title and effects, generateEnhancedThumbnail
\* returns success with the image it was given, so after any number of
\* applications the result is still the original image.
C16_OverlayPreservesImage ==
  \A j \in Jobs :
    (kind[j] = "generateEnhancedThumbnail" /\ Happened(j, "enhanced"))
      => /\ Settled(j)
         /\ result[j].success
         /\ result[j].value = buffer[j]

C16_Witness ==
  /\ kind[Observed] = "generateEnhancedThumbnail"
  /\ Count(Observed, "enhanced") = MaxApply
  /\ result[Observed].value \in Thumbnails

\* C17: createThumbnail extracts exactly one frame, at the requested fraction
\* of the video's duration (the midpoint when none is given) and at 1280x720.
\* Positions are in percent, timestamps in hundredths of a second.
C17_SampleAtFraction ==
  \A j \in Jobs :
    (kind[j] = "createThumbnail" /\ Happened(j, "extractEnded")
       /\ (args[j].given => args[j].percent \in 0..100))
      => /\ Len(media[j].shots) = 1
         /\ media[j].shots[1] =
              media[j].duration * (IF args[j].given THEN args[j].percent ELSE 50)
         /\ media[j].size = <<1280, 720>>

\* C18: createThumbnail fails and returns no image when ffmpeg could not decode
\* the video or when the requested fraction lies outside [0,1].
C18_ExtractionError ==
  \A j \in Jobs :
    (kind[j] = "createThumbnail" /\ Settled(j)
       /\ \/ failedStep[j] \in Diagnostics
          \/ args[j].given /\ args[j].percent \notin 0..100)
      => /\ ~result[j].success
         /\ result[j].value = Undefined

\* C19: the beats of the analysis a successful processAudio returns are
\* strictly increasing and none is later than the returned duration.
C19_BeatsOrdered ==
  \A j \in Jobs :
    (kind[j] = "processAudio" /\ Settled(j) /\ result[j].success)
      => LET v == result[j].value
         IN /\ v # Undefined
            /\ \A i \in 1..Len(v[3]) :
                 /\ i > 1 => v[3][i - 1] < v[3][i]
                 /\ v[3][i] <= v[4]

\* C20: when processAudio, generateVideo or createThumbnail has returned
\* success, none of the temporary files that call created exists any more.
C20_SuccessMeansClean ==
  \A j \in Jobs :
    (kind[j] \in {"processAudio", "generateVideo", "createThumbnail"}
       /\ Settled(j) /\ result[j].success)
      => FilesOf(j) = {}

\* C21: in the cleanup of generateVideo and of createThumbnail a deletion that
\* fails does not stop the others: once the run has returned, the only
\* temporary file of the run that can remain is the one whose deletion failed.
C21_CleanupContinues ==
  \A j \in Jobs :
    (kind[j] \in {"generateVideo", "createThumbnail"} /\ Settled(j)
       /\ failedStep[j] = "unlink")
      => Cardinality(FilesOf(j)) <= 1

\* C22: when the encoder ended without error and the output was read,
\* generateVideo returns success with that buffer, also when deleting a
\* temporary file fails afterwards.
C22_VideoSurvivesCleanup ==
  \A j \in Jobs :
    (kind[j] = "generateVideo" /\ Happened(j, "outputRead") /\ Settled(j))
      => /\ result[j].success
         /\ result[j].value = buffer[j]

\* C23: a call of processAudio writes one temp file and analyses it once: the
\* call inside it never re-enters processAudio, so no call has more than one
\* frame or more than one temp file.
C23_NoReentry ==
  \A j \in Jobs :
    kind[j] = "processAudio"
      => /\ Len(frames[j]) <= 1
         /\ Count(j, "audioWritten") <= 1
         /\ (Settled(j) /\ result[j].success) => Count(j, "analyzed") = 1

\* C24: a call that completes resolves to an object with a boolean success,
\* never rejects, and a failure object carries the message of an error that
\* was thrown in the call.
C24_NeverRejects ==
  \A j \in Jobs :
    Settled(j)
      => /\ result[j] # NoResult
         /\ result[j].success \in BOOLEAN
         /\ ~result[j].success
              => /\ Happened(j, "failed")
                 /\ result[j].error \notin {"", "pending"}
                 /\ kind[j] # "processAudio" => result[j].error = failedStep[j]

C24_Witness ==
  /\ kind[Observed] = "createThumbnail"
  /\ Settled(Observed)
  /\ ~result[Observed].success
  /\ result[Observed].error = "readFile"

C26_LogoutIsFinal ==
  /\ user # Null => localStorage.auth_token # Null
  /\ (/\ requests[Len(requests)].op = "logout"
      /\ \A i \in 1..Len(requests) : requests[i].pc = "settled")
       => /\ user = Null
          /\ localStorage = LoggedOut

\* C27: whatever createOrUpdateAnalytics calls have run, also concurrently for
\* one video_id, the analytics table holds at most one row per video_id, and
\* that row holds the values of one of the calls.
C27_OneRowPerVideo ==
  /\ \A r1, r2 \in analytics : r1.video_id = r2.video_id => r1 = r2
  /\ \A r \in analytics :
       \E i \in 1..Len(calls) : calls[i].video_id = r.video_id /\ calls[i].views = r.views

\* C28: an update call leaves every column unchanged whose field the update
\* data omits, and changes no row but the one with the given id.
C28_PartialUpdate ==
  [][LET call == tables'.log[Len(tables'.log)]
     IN \A t \in TableNames : \A id \in RowIds : \A c \in Columns(t) :
          (t # call.table \/ id # call.id \/ c \notin DOMAIN call.data)
            => tables'.rows[t][id][c] = tables.rows[t][id][c]]_vars

\* C29: after every call on the in-memory user store no two stored users
\* share an id; updateUser leaves the id of every user as it was; deleteUser
\* removes exactly the one user with the given id, or removes nothing and
\* returns null when there is none.
C29_StoreIds ==
  [][/\ \A i, k \in 1..Len(users') : IdOf(users'[i]) = IdOf(users'[k]) => i = k
     /\ returned'.op = "updateUser"
          => /\ Len(users') = Len(users)
             /\ \A i \in 1..Len(users) : IdOf(users'[i]) = IdOf(users[i])
     /\ returned'.op = "deleteUser"
          => IF \E i \in 1..Len(users) : IdOf(users[i]) = returned'.userId
               THEN /\ Len(users') = Len(users) - 1
                    /\ \A i \in 1..Len(users') : IdOf(users'[i]) # returned'.userId
                    /\ returned'.value # Null
               ELSE /\ users' = users
                    /\ returned'.value = Null]_vars

====
